---- MODULE Spec2Model ----
(***************************************************************************)
(* Model of the Swim Dojo scraper (src/script.py): main() loads the        *)
(* total-distance cache, fetches the archive page, inverts the             *)
(* category -> workouts mapping, merges one record per workout (fetching   *)
(* a detail page for every workout that has a URL and is not cached),      *)
(* saves the cache and writes the two output files.                        *)
(*                                                                         *)
(* Text is modelled as a sequence of one-character strings, so that        *)
(* substring tests, upper-casing, digit extraction and sorting are         *)
(* computed the way the Python code computes them.  JSON / Python values   *)
(* are tagged tuples: <<"null">>, <<"int", n>>, <<"str", s>>,              *)
(* <<"obj", totalDistance, summary>>.                                      *)
(***************************************************************************)
EXTENDS Integers, Sequences, FiniteSets, TLC

\* ------------------------------------------------------------------ bounds
\* Most archive groups (li.archive-group) on one archive page.
MaxGroups == 2
\* Most workouts (a.archive-item-link) listed in one archive group.
MaxItems == 2
\* Most <p> blocks on one detail page.
MaxBlocks == 2
\* Most invocations of main().
MaxRuns == 2

\* ------------------------------------------------------------------ values
None == <<"null">>
IntVal(n) == <<"int", n>>
StrVal(s) == <<"str", s>>
ObjVal(total, summary) == <<"obj", total, summary>>

\* Workout names found on the archive page.
Names == {"A", "B"}

\* BASE_URL-prefixed link of a workout.
BASE_URL == "https://www.swimdojo.com"
UrlOf(name) == StrVal(BASE_URL \o "/" \o name)

\* ------------------------------------------------------------------ text
\* Characters in code point order (relative order is all that sorting uses).
Ascii ==
  << " ", "+", ",", "-",
     "0", "1", "2", "3", "4", "5", "6", "7", "8", "9", ":",
     "A", "B", "C", "D", "E", "F", "G", "H", "I", "J", "K", "L", "M",
     "N", "O", "P", "Q", "R", "S", "T", "U", "V", "W", "X", "Y", "Z",
     "a", "b", "c", "d", "e", "f", "g", "h", "i", "j", "k", "l", "m",
     "n", "o", "p", "q", "r", "s", "t", "u", "v", "w", "x", "y", "z",
     "sup2" >>

\* ord(ch)
Code(ch) == CHOOSE i \in DOMAIN Ascii : Ascii[i] = ch

Lowers ==
  << "a", "b", "c", "d", "e", "f", "g", "h", "i", "j", "k", "l", "m",
     "n", "o", "p", "q", "r", "s", "t", "u", "v", "w", "x", "y", "z" >>
Uppers ==
  << "A", "B", "C", "D", "E", "F", "G", "H", "I", "J", "K", "L", "M",
     "N", "O", "P", "Q", "R", "S", "T", "U", "V", "W", "X", "Y", "Z" >>

\* str.upper(), one character at a time
UpperChar(ch) ==
  IF \E i \in DOMAIN Lowers : Lowers[i] = ch
    THEN Uppers[CHOOSE i \in DOMAIN Lowers : Lowers[i] = ch]
    ELSE ch

Upper(text) == [i \in DOMAIN text |-> UpperChar(text[i])]

\* needle in text
Contains(text, needle) ==
  \E i \in 1..(Len(text) - Len(needle) + 1) :
    SubSeq(text, i, i + Len(needle) - 1) = needle

\* Decimal digits, which int() accepts.
DecimalDigits == <<"0", "1", "2", "3", "4", "5", "6", "7", "8", "9">>
IsDecimal(ch) == \E i \in DOMAIN DecimalDigits : DecimalDigits[i] = ch
DigitValue(ch) == (CHOOSE i \in DOMAIN DecimalDigits : DecimalDigits[i] = ch) - 1

\* str.isdigit(): the decimal digits and also digit characters, such as the
\* superscript two, that int() rejects.
IsDigit(ch) == IsDecimal(ch) \/ ch = "sup2"

\* "".join(c for c in text if c.isdigit())
Digits(text) == SelectSeq(text, IsDigit)

\* int(digits) of a string of decimal digits
RECURSIVE ParseInt(_)
ParseInt(digits) ==
  IF digits = <<>> THEN 0
  ELSE 10 * ParseInt(SubSeq(digits, 1, Len(digits) - 1))
       + DigitValue(digits[Len(digits)])

\* Python's < on strings: lexicographic by code point
RECURSIVE StrLess(_, _)
StrLess(a, b) ==
  IF b = <<>> THEN FALSE
  ELSE IF a = <<>> THEN TRUE
  ELSE IF Code(Head(a)) # Code(Head(b)) THEN Code(Head(a)) < Code(Head(b))
  ELSE StrLess(Tail(a), Tail(b))

\* sorted(S) of a set of strings
RECURSIVE Sorted(_)
Sorted(S) ==
  IF S = {} THEN <<>>
  ELSE LET m == CHOOSE x \in S : \A y \in S \ {x} : StrLess(x, y)
       IN  <<m>> \o Sorted(S \ {m})

\* Occurrences of x in a sequence.
Count(seq, x) == Cardinality({i \in DOMAIN seq : seq[i] = x})

Range(seq) == {seq[i] : i \in DOMAIN seq}

\* ------------------------------------------------------------------ labels
L_Beginner == <<"B", "e", "g", "i", "n", "n", "e", "r">>
L_Intermediate == <<"I", "n", "t", "e", "r", "m", "e", "d", "i", "a", "t", "e">>
L_Advanced == <<"A", "d", "v", "a", "n", "c", "e", "d">>
L_Hard == <<"H", "a", "r", "d">>
L_Insane == <<"I", "n", "s", "a", "n", "e">>
L_Freestyle == <<"F", "r", "e", "e", "s", "t", "y", "l", "e">>
L_Backstroke == <<"B", "a", "c", "k", "s", "t", "r", "o", "k", "e">>
L_Breaststroke == <<"B", "r", "e", "a", "s", "t", "s", "t", "r", "o", "k", "e">>
L_Butterfly == <<"B", "u", "t", "t", "e", "r", "f", "l", "y">>
L_IM == <<"I", "M">>
L_Stroke == <<"S", "t", "r", "o", "k", "e">>
L_Range == <<"1", "0", "0", "0", "-", "2", "0", "0", "0">>
L_Plus == <<"3", "0", "0", "0", "+">>
L_Drills == <<"D", "r", "i", "l", "l", "s">>

\* The tuples merge_workout_data tests membership in.
DifficultyWords == {L_Beginner, L_Intermediate, L_Advanced, L_Hard, L_Insane}
StrokeWords ==
  {L_Freestyle, L_Backstroke, L_Breaststroke, L_Butterfly, L_IM, L_Stroke}

\* Category labels an archive page may carry: one or two of each bucket.
Labels == {L_Range, L_Plus, L_Beginner, L_Freestyle, L_Drills}

\* ------------------------------------------------------------------ detail pages
TOTAL == <<"T", "O", "T", "A", "L", ":">>
P_WarmUp == <<"W", "a", "r", "m", " ", "u", "p">>
P_Total3000 == <<"T", "O", "T", "A", "L", ":", " ", "3", ",", "0", "0", "0", " ", "y", "d", "s">>
P_TotalTbd == <<"T", "o", "t", "a", "l", ":", " ", "t", "b", "d">>
P_Total500 == <<"t", "o", "t", "a", "l", ":", " ", "5", "0", "0">>
P_Notes == <<"N", "o", "t", "e", "s", " ", "2", "5">>
P_TotalSup == <<"T", "O", "T", "A", "L", ":", " ", "5", "sup2">>

\* Texts of the <p> tags a detail page may hold.
Blocks == {P_WarmUp, P_Total3000, P_TotalTbd, P_Total500, P_Notes, P_TotalSup}

\* Bodies of detail pages: the texts of their <p> tags in document order.
Pages == UNION {[1..n -> Blocks] : n \in 0..MaxBlocks}

\* What requests.get(url, timeout=10) gives for a detail page: it raises
\* (timeout, connection error), or it returns a status code and a body.
StatusCodes == {200, 404, 500}
DetailResponses ==
  {<<"exc">>} \cup {<<"http", s, p>> : s \in StatusCodes, p \in Pages}

\* The answers a run of main() may get: an exception, a 404, a page without
\* a total, a page with one.
RunResponses ==
  { <<"exc">>,
    <<"http", 404, <<P_Total500>>>>,
    <<"http", 200, <<P_WarmUp, P_TotalTbd>>>>,
    <<"http", 200, <<P_WarmUp, P_Total500>>>> }

\* ------------------------------------------------------------------ fetch_workout_total
\* Mutant: the loop stops at the first block that holds "TOTAL:", digits or
\* not.
RECURSIVE ExtractTotal_FirstTotalOnly(_)
ExtractTotal_FirstTotalOnly(blocks) ==
  IF blocks = <<>> THEN None
  ELSE LET text == Head(blocks)
           digits == Digits(text)
       IN  IF Contains(Upper(text), TOTAL)
             THEN IF digits # <<>> /\ \A i \in DOMAIN digits : IsDecimal(digits[i])
                    THEN IntVal(ParseInt(digits))
                    ELSE None
             ELSE ExtractTotal_FirstTotalOnly(Tail(blocks))

\* The loop over soup.find_all("p"): the first block that holds "TOTAL:"
\* (upper-cased) and at least one digit decides.  int() raises ValueError on a
\* digit that is not decimal; the enclosing except returns None.
RECURSIVE ExtractTotal(_)
ExtractTotal(blocks) ==
  IF blocks = <<>> THEN None
  ELSE LET text == Head(blocks)
           digits == Digits(text)
       IN  IF Contains(Upper(text), TOTAL) /\ digits # <<>>
             THEN IF \A i \in DOMAIN digits : IsDecimal(digits[i])
                    THEN IntVal(ParseInt(digits))
                    ELSE None
             ELSE ExtractTotal(Tail(blocks))

\* The try block: None on an exception or a status other than 200.
DetailResult(resp) ==
  IF resp[1] = "exc" THEN None
  ELSE IF resp[2] # 200 THEN None
  ELSE ExtractTotal(resp[3])

EmptyMap == [n \in {} |-> None]

\* Mutant: the cache is not consulted before the request.
fetch_workout_total_NoCacheCheck(c, name, resp) ==
  LET t == DetailResult(resp)
  IN  [total |-> t,
       cache |-> IF t # None THEN (name :> t) @@ c ELSE c,
       requested |-> TRUE]

\* Mutant: the result is stored in the cache whether or not a total was
\* found.
fetch_workout_total_CachesFailure(c, name, resp) ==
  IF name \in DOMAIN c
    THEN [total |-> c[name], cache |-> c, requested |-> FALSE]
    ELSE LET t == DetailResult(resp)
         IN  [total |-> t, cache |-> (name :> t) @@ c, requested |-> TRUE]

\* Mutant: a total that was found is returned without being stored.
fetch_workout_total_NoCacheWrite(c, name, resp) ==
  IF name \in DOMAIN c
    THEN [total |-> c[name], cache |-> c, requested |-> FALSE]
    ELSE [total |-> DetailResult(resp), cache |-> c, requested |-> TRUE]

\* fetch_workout_total(url, cache, name) when the request is answered by resp:
\* the value returned, the cache afterwards, and whether a request was made.
fetch_workout_total(c, name, resp) ==
  IF name \in DOMAIN c
    THEN [total |-> c[name], cache |-> c, requested |-> FALSE]
    ELSE LET t == DetailResult(resp)
         IN  [total |-> t,
              cache |-> IF t # None THEN (name :> t) @@ c ELSE c,
              requested |-> TRUE]

\* ------------------------------------------------------------------ merge_workout_data
\* any(x in c for x in ("-", "+"))
IsDistance(c) == \E i \in DOMAIN c : c[i] \in {"-", "+"}
IsDifficulty(c) == c \in DifficultyWords
IsStroke(c) == c \in StrokeWords
\* Mutant: Other leaves out the test for "-" and "+".
IsOther_NoDistanceTest(c) == c \notin (DifficultyWords \cup StrokeWords)
IsOther(c) == c \notin (DifficultyWords \cup StrokeWords) /\ ~IsDistance(c)

DistanceOf(cats) == SelectSeq(cats, IsDistance)
DifficultyOf(cats) == SelectSeq(cats, IsDifficulty)
StrokeOf(cats) == SelectSeq(cats, IsStroke)
OtherOf(cats) == SelectSeq(cats, IsOther)

\* data[name] = {...}
BuildRecord(cats, url, total) ==
  [Distance |-> DistanceOf(cats),
   Difficulty |-> DifficultyOf(cats),
   Stroke |-> StrokeOf(cats),
   Other |-> OtherOf(cats),
   url |-> url,
   TotalDistance |-> total]

\* ------------------------------------------------------------------ ordered dicts
\* A dict that is iterated is a sequence of <<key, value>> pairs with
\* distinct keys, in insertion order.
Keys(d) == [i \in DOMAIN d |-> d[i][1]]
HasKey(d, k) == \E i \in DOMAIN d : d[i][1] = k
Get(d, k) == d[CHOOSE i \in DOMAIN d : d[i][1] = k][2]

\* ------------------------------------------------------------------ invert_category_mapping
\* The workouts in the order the two loops first reach them.
RECURSIVE FirstSeen(_, _)
FirstSeen(flat, seen) ==
  IF flat = <<>> THEN <<>>
  ELSE IF Head(flat) \in seen THEN FirstSeen(Tail(flat), seen)
  ELSE <<Head(flat)>> \o FirstSeen(Tail(flat), seen \cup {Head(flat)})

RECURSIVE Flatten(_)
Flatten(byCat) ==
  IF byCat = <<>> THEN <<>> ELSE Head(byCat)[2] \o Flatten(Tail(byCat))

\* by_workout[workout].add(category)
CategoriesOf(byCat, workout) ==
  {byCat[g][1] : g \in {h \in DOMAIN byCat : workout \in Range(byCat[h][2])}}

\* Mutant: the categories are kept in a list, in document order, instead of
\* being collected in a set and sorted.
RECURSIVE OccurrencesOf(_, _)
OccurrencesOf(byCat, workout) ==
  IF byCat = <<>> THEN <<>>
  ELSE [i \in 1..Count(Head(byCat)[2], workout) |-> Head(byCat)[1]]
       \o OccurrencesOf(Tail(byCat), workout)

invert_category_mapping_Unsorted(byCat) ==
  LET order == FirstSeen(Flatten(byCat), {})
  IN  [i \in DOMAIN order |-> <<order[i], OccurrencesOf(byCat, order[i])>>]

invert_category_mapping(byCat) ==
  LET order == FirstSeen(Flatten(byCat), {})
  IN  [i \in DOMAIN order |-> <<order[i], Sorted(CategoriesOf(byCat, order[i]))>>]

\* ------------------------------------------------------------------ archive pages
\* extract_workouts_by_category: the lists of workout names of one group.
WorkoutLists == UNION {[1..n -> Names] : n \in 0..MaxItems}

\* by_category: one entry per category, in document order.
Groupings ==
  {g \in UNION {[1..n -> Labels \X WorkoutLists] : n \in 0..MaxGroups} :
     \A i, j \in DOMAIN g : g[i][1] = g[j][1] => i = j}

\* workout_links: every workout named on the page has an entry; its href is
\* a URL or None.
LinksFor(byCat) ==
  LET names == Range(Flatten(byCat))
  IN  {l \in [names -> {None} \cup {UrlOf(n) : n \in names}] :
         \A n \in names : l[n] \in {None, UrlOf(n)}}

\* The E2E page of the documentation and pages that list B first, A alone,
\* B alone, and nothing.
E2EPage ==
  << <<L_Beginner, <<"A">>>>, <<L_Range, <<"A">>>>, <<L_Freestyle, <<"A", "B">>>> >>
RunGroupings ==
  { E2EPage,
    << <<L_Freestyle, <<"B", "A">>>> >>,
    << <<L_Drills, <<"A">>>> >>,
    << >> }

\* ------------------------------------------------------------------ state
VARIABLES
  pc,           \* where main() is, or how the last process ended
  run,          \* invocations of main() so far
  disk,         \* total_distance_cache.json
  outJson,      \* workouts_by_category.json
  outHtml,      \* workouts_table.html
  cache,        \* main's cache dict
  by_category,  \* main's by_category
  links,        \* main's workout_links
  by_workout,   \* main's by_workout
  todo,         \* merge_workout_data: the workouts the loop has yet to reach
  data,         \* merge_workout_data: data
  reqs,         \* history: detail-page requests issued so far, per workout
  runReqs,      \* history: workouts a detail page was requested for in this run
  failed,       \* history: workouts whose detail fetch failed in this run
  start,        \* history: the three files as they were when this run began
  prev,         \* history: the last merge whose cache was saved
  persisted,    \* history: workouts a complete cache file has ever held
  archive,      \* history: how this run's archive request ended
  observed      \* history: the response the last detail request got

vars ==
  << pc, run, disk, outJson, outHtml, cache, by_category, links, by_workout,
     todo, data, reqs, runReqs, failed, start, prev, persisted, archive,
     observed >>

\* A file: absent, partial (opened for writing, not yet written and closed)
\* or complete with its content.
Absent == [st |-> "absent", content |-> EmptyMap]
Partial == [st |-> "partial", content |-> EmptyMap]
Complete(c) == [st |-> "complete", content |-> c]

NoOutput == [st |-> "absent", content |-> <<>>]
Written(c) == [st |-> "complete", content |-> c]

\* Cache files a first run may find: none, an empty one, one in the legacy
\* shape (bare integers) and one in the structured shape.
InitialCaches ==
  { Absent,
    Complete(EmptyMap),
    Complete("A" :> IntVal(3000)),
    Complete("A" :> ObjVal(IntVal(3000), "")) }

NoPrev ==
  [valid |-> FALSE, by_workout |-> <<>>, links |-> EmptyMap, data |-> <<>>,
   failed |-> {}]

Ended == {"idle", "done", "corrupt", "aborted", "crashed"}
Running == {"loaded", "fetched", "merging", "merged", "saving", "saved", "jsonWritten"}

\* The process's memory is gone once it has ended.
Forget ==
  /\ cache' = EmptyMap
  /\ by_category' = <<>>
  /\ links' = EmptyMap
  /\ by_workout' = <<>>
  /\ todo' = <<>>
  /\ data' = <<>>

MemoryInit ==
  /\ cache = EmptyMap
  /\ by_category = <<>>
  /\ links = EmptyMap
  /\ by_workout = <<>>
  /\ todo = <<>>
  /\ data = <<>>

HistoryInit ==
  /\ reqs = [n \in Names |-> 0]
  /\ runReqs = {}
  /\ failed = {}
  /\ prev = NoPrev
  /\ archive = "none"
  /\ observed = <<"none">>

Init ==
  /\ pc = "idle"
  /\ run = 0
  /\ disk \in InitialCaches
  /\ outJson = NoOutput
  /\ outHtml = NoOutput
  /\ start = [disk |-> disk, outJson |-> outJson, outHtml |-> outHtml]
  /\ persisted = DOMAIN disk.content
  /\ MemoryInit
  /\ HistoryInit

\* ------------------------------------------------------------------ main
\* main() starts and calls load_cache(): json.loads raises on a file that is
\* not complete JSON, which ends the process.
load_cache ==
  /\ pc \in Ended
  /\ run < MaxRuns
  /\ run' = run + 1
  /\ start' = [disk |-> disk, outJson |-> outJson, outHtml |-> outHtml]
  /\ runReqs' = {}
  /\ failed' = {}
  /\ archive' = "none"
  /\ pc' = IF disk.st = "partial" THEN "corrupt" ELSE "loaded"
  /\ cache' = IF disk.st = "complete" THEN disk.content ELSE EmptyMap
  /\ UNCHANGED << disk, outJson, outHtml, by_category, links, by_workout, todo,
                  data, reqs, prev, persisted, observed >>

\* Mutant: the status is not checked and the exception is swallowed: main
\* goes on with a page that lists nothing.
fetch_archive_html_fails_NotFatal ==
  /\ pc = "loaded"
  /\ \E how \in {"exception", "status"} : archive' = how
  /\ by_category' = <<>>
  /\ links' = EmptyMap
  /\ pc' = "fetched"
  /\ UNCHANGED << run, disk, outJson, outHtml, cache, by_workout, todo, data,
                  reqs, runReqs, failed, start, prev, persisted, observed >>

\* fetch_archive_html: requests.get raises, or the status is not 200 and
\* sys.exit ends the process.
fetch_archive_html_fails ==
  /\ pc = "loaded"
  /\ \E how \in {"exception", "status"} : archive' = how
  /\ pc' = "aborted"
  /\ Forget
  /\ UNCHANGED << run, disk, outJson, outHtml, reqs, runReqs, failed, start,
                  prev, persisted, observed >>

\* fetch_archive_html and extract_workouts_by_category on a page that arrived.
extract_workouts_by_category(pages) ==
  /\ pc = "loaded"
  /\ \E g \in pages : \E l \in LinksFor(g) :
       /\ by_category' = g
       /\ links' = l
  /\ archive' = "ok"
  /\ pc' = "fetched"
  /\ UNCHANGED << run, disk, outJson, outHtml, cache, by_workout, todo, data,
                  reqs, runReqs, failed, start, prev, persisted, observed >>

\* by_workout = invert_category_mapping(by_category), and merge_workout_data
\* is entered.
Invert ==
  /\ pc = "fetched"
  /\ by_workout' = invert_category_mapping(by_category)
  /\ todo' = Keys(by_workout')
  /\ data' = <<>>
  /\ pc' = "merging"
  /\ UNCHANGED << run, disk, outJson, outHtml, cache, by_category, links, reqs,
                  runReqs, failed, start, prev, observed,
                  persisted, archive >>

\* One pass of the loop of merge_workout_data, for the next workout; resp is
\* what the detail page's server answers if it is asked.
merge_workout_data_step(resp) ==
  /\ pc = "merging"
  /\ todo # <<>>
  /\ LET name == Head(todo)
         cats == Get(by_workout, name)
         url == links[name]
         got == IF url # None
                  THEN fetch_workout_total(cache, name, resp)
                  ELSE [total |-> None, cache |-> cache, requested |-> FALSE]
     IN  /\ cache' = got.cache
         /\ data' = Append(data, <<name, BuildRecord(cats, url, got.total)>>)
         /\ reqs' = IF got.requested THEN [reqs EXCEPT ![name] = @ + 1] ELSE reqs
         /\ runReqs' = IF got.requested THEN runReqs \cup {name} ELSE runReqs
         /\ failed' = IF got.requested /\ got.total = None
                        THEN failed \cup {name} ELSE failed
  /\ todo' = Tail(todo)
  /\ UNCHANGED << pc, run, disk, outJson, outHtml, by_category, links,
                  by_workout, start, prev,
                  persisted, archive >>

\* merge_workout_data returns data.
merge_workout_data_return ==
  /\ pc = "merging"
  /\ todo = <<>>
  /\ pc' = "merged"
  /\ UNCHANGED << run, disk, outJson, outHtml, cache, by_category, links,
                  by_workout, todo, data, reqs, runReqs, failed, start, prev,
                  observed,
                  persisted, archive >>

\* save_cache: write_text opens the file for writing, which truncates it ...
save_cache_open ==
  /\ pc = "merged"
  /\ disk' = Partial
  /\ pc' = "saving"
  /\ UNCHANGED << run, outJson, outHtml, cache, by_category, links, by_workout,
                  todo, data, reqs, runReqs, failed, start, prev, persisted, archive,
     observed,
                  persisted, archive >>

\* ... then writes json.dumps(cache) and closes it.
save_cache_write ==
  /\ pc = "saving"
  /\ disk' = Complete(cache)
  /\ pc' = "saved"
  /\ prev' = [valid |-> TRUE, by_workout |-> by_workout, links |-> links,
              data |-> data, failed |-> failed]
  /\ persisted' = persisted \cup DOMAIN cache
  /\ UNCHANGED << run, outJson, outHtml, cache, by_category, links, by_workout,
                  todo, data, reqs, runReqs, failed, start, observed,
                  archive >>

\* OUTPUT_JSON.write_text(json.dumps(full_data))
WriteJson ==
  /\ pc = "saved"
  /\ outJson' = Written(data)
  /\ pc' = "jsonWritten"
  /\ UNCHANGED << run, disk, outHtml, cache, by_category, links, by_workout,
                  todo, data, reqs, runReqs, failed, start, prev, persisted, archive,
     observed,
                  persisted, archive >>

\* OUTPUT_HTML.write_text(build_html(full_data)): the table has one row per
\* workout (the rows are kept here as a set); main returns.
WriteHtml ==
  /\ pc = "jsonWritten"
  /\ outHtml' = Written({data[i] : i \in DOMAIN data})
  /\ pc' = "done"
  /\ Forget
  /\ UNCHANGED << run, disk, outJson, reqs, runReqs, failed, start, prev,
                  observed,
                  persisted, archive >>

\* The process is interrupted while main() runs.
Interrupt ==
  /\ pc \in Running
  /\ pc' = "crashed"
  /\ Forget
  /\ UNCHANGED << run, disk, outJson, outHtml, reqs, runReqs, failed, start,
                  prev, observed,
                  persisted, archive >>

\* The archive page arrives with one of the groupings of a run.
fetch_archive_html == extract_workouts_by_category(RunGroupings)

\* The loop of merge_workout_data advances by one workout.
merge_workout_data ==
  \E resp \in RunResponses :
    merge_workout_data_step(resp) /\ UNCHANGED observed

Next ==
  \/ load_cache
  \/ fetch_archive_html_fails
  \/ fetch_archive_html
  \/ Invert
  \/ merge_workout_data
  \/ merge_workout_data_return
  \/ save_cache_open
  \/ save_cache_write
  \/ WriteJson
  \/ WriteHtml
  \/ Interrupt

Spec == Init /\ [][Next]_vars

\* ------------------------------------------------------------------ one merge
\* invert_category_mapping and merge_workout_data on every archive page
\* within the bounds: a first run that found no cache file and has fetched a
\* page none of whose workouts has a link.
MergeInit ==
  /\ pc = "fetched"
  /\ run = 1
  /\ disk = Absent
  /\ outJson = NoOutput
  /\ outHtml = NoOutput
  /\ start = [disk |-> disk, outJson |-> outJson, outHtml |-> outHtml]
  /\ persisted = {}
  /\ cache = EmptyMap
  /\ by_category \in Groupings
  /\ links = [n \in Range(Flatten(by_category)) |-> None]
  /\ by_workout = <<>>
  /\ todo = <<>>
  /\ data = <<>>
  /\ reqs = [n \in Names |-> 0]
  /\ runReqs = {}
  /\ failed = {}
  /\ prev = NoPrev
  /\ archive = "ok"
  /\ observed = <<"none">>

MergeNext ==
  \/ Invert
  \/ merge_workout_data
  \/ merge_workout_data_return

MergeSpec == MergeInit /\ [][MergeNext]_vars

\* ------------------------------------------------------------------ one detail fetch
\* fetch_workout_total on every response within the bounds: a first run that
\* found no cache file and an archive page listing one linked workout.
OneWorkoutPage == << <<L_Drills, <<"A">>>> >>

FetchInit ==
  /\ pc = "merging"
  /\ run = 1
  /\ disk = Absent
  /\ outJson = NoOutput
  /\ outHtml = NoOutput
  /\ start = [disk |-> disk, outJson |-> outJson, outHtml |-> outHtml]
  /\ persisted = {}
  /\ cache = EmptyMap
  /\ by_category = OneWorkoutPage
  /\ links = [n \in {"A"} |-> UrlOf(n)]
  /\ by_workout = invert_category_mapping(by_category)
  /\ todo = Keys(by_workout)
  /\ data = <<>>
  /\ reqs = [n \in Names |-> 0]
  /\ runReqs = {}
  /\ failed = {}
  /\ prev = NoPrev
  /\ archive = "ok"
  /\ observed = <<"none">>

merge_workout_data_observed ==
  \E resp \in DetailResponses : merge_workout_data_step(resp) /\ observed' = resp

FetchNext ==
  \/ merge_workout_data_observed
  \/ merge_workout_data_return

FetchSpec == FetchInit /\ [][FetchNext]_vars

\* ------------------------------------------------------------------ claims
\* The cache dict as load_cache returned it at the start of this run.
LoadedCache ==
  IF start.disk.st = "complete" THEN start.disk.content ELSE EmptyMap

Merging == pc \in {"merging", "merged"}

\* C1: cache monotonicity.  Once a total distance for a workout is in a
\* complete cache file (persisted), or is in the cache dict of the running
\* process, no step of this or of any later run issues a detail-page request
\* for that workout.
C1_CacheMonotonic ==
  [][\A n \in Names :
       (n \in persisted \/ n \in DOMAIN cache) => reqs'[n] = reqs[n]]_vars

\* A later run has merged a linked workout that an earlier run fetched and
\* saved, and has not requested its page.
C1_Witness ==
  /\ pc = "merged"
  /\ run = 2
  /\ \E n \in Names :
       /\ n \in persisted
       /\ reqs[n] = 1
       /\ HasKey(data, n)
       /\ links[n] # None
       /\ n \notin runReqs

\* C2: the cache is authoritative in merge.  Every workout that the cache
\* held when merge_workout_data was entered gets the cached value as its
\* TotalDistance and no request, with or without a URL.
C2_CacheAuthoritative ==
  Merging =>
    \A i \in DOMAIN data :
      LET name == data[i][1]
      IN  name \in DOMAIN LoadedCache =>
            /\ data[i][2].TotalDistance = LoadedCache[name]
            /\ name \notin runReqs

\* C3: a cache-cold workout with a URL.  A successful fetch puts the total in
\* the cache and the same total in the record; a failed fetch leaves the
\* record's TotalDistance absent and the cache without an entry for the
\* workout; entries the cache held are unchanged; the loop goes on to every
\* workout; and the cache file saved holds exactly the names that were cached
\* before or fetched successfully.
C3_FetchOutcome ==
  /\ Merging =>
       /\ \A i \in DOMAIN data :
            LET name == data[i][1]
                rec == data[i][2]
            IN  (rec.url # None /\ name \notin DOMAIN LoadedCache) =>
                  /\ name \in runReqs
                  /\ name \in failed =>
                       (rec.TotalDistance = None /\ name \notin DOMAIN cache)
                  /\ name \notin failed =>
                       /\ name \in DOMAIN cache
                       /\ cache[name] # None
                       /\ rec.TotalDistance = cache[name]
       /\ \A n \in DOMAIN LoadedCache :
            n \in DOMAIN cache /\ cache[n] = LoadedCache[n]
       /\ DOMAIN cache = DOMAIN LoadedCache \cup (runReqs \ failed)
  /\ pc = "merged" => Keys(data) = Keys(by_workout)
  /\ pc = "saved" =>
       /\ disk.st = "complete"
       /\ DOMAIN disk.content = DOMAIN LoadedCache \cup (runReqs \ failed)

\* A run whose first fetch failed has gone on to fetch the next workout
\* successfully and has saved the cache.
C3_Witness ==
  /\ pc = "saved"
  /\ Len(data) = 2
  /\ data[1][1] \in failed
  /\ data[2][1] \in runReqs \ failed
  /\ data[2][1] \in DOMAIN disk.content

\* This merge has the inputs of the last merge whose cache was saved.
SecondMerge ==
  /\ pc = "merged"
  /\ prev.valid
  /\ by_workout = prev.by_workout
  /\ links = prev.links

\* C4 as stated: the second of two merges with the same inputs gives the
\* dataset of the first and issues no detail-page request.
C4_Idempotent == SecondMerge => (data = prev.data /\ runReqs = {})

\* C4 amended: the second merge requests only the detail pages whose fetch
\* failed in the first, and gives every other workout the record the first
\* gave it; when no fetch failed in the first, the datasets are identical and
\* no request is issued.
C4_IdempotentButRetry ==
  SecondMerge =>
    /\ runReqs \subseteq prev.failed
    /\ Keys(data) = Keys(prev.data)
    /\ \A i \in DOMAIN data :
         data[i][1] \notin prev.failed => data[i] = prev.data[i]
    /\ prev.failed = {} => (data = prev.data /\ runReqs = {})

\* The second merge found the total the first one fetched in the cache.
C4_Witness ==
  /\ SecondMerge
  /\ runReqs = {}
  /\ \E n \in Names :
       /\ HasKey(data, n)
       /\ links[n] # None
       /\ reqs[n] = 1

\* C5: classifier totality and exclusivity.  In every record built, every
\* label of the workout's category set occurs once in exactly one of
\* Distance, Difficulty, Stroke, Other; the four lists hold no other label;
\* and a label with "-" or "+" is in Distance.
C5_Classifier ==
  \A i \in DOMAIN data :
    LET name == data[i][1]
        rec == data[i][2]
        all == rec.Distance \o rec.Difficulty \o rec.Stroke \o rec.Other
        input == CategoriesOf(by_category, name)
    IN  /\ Range(all) = input
        /\ \A c \in input : Count(all, c) = 1
        /\ \A c \in input : IsDistance(c) => c \in Range(rec.Distance)

\* A record with a label in Distance and a label in Other.
C5_Witness ==
  \E i \in DOMAIN data :
    /\ data[i][2].Distance # <<>>
    /\ data[i][2].Other # <<>>

\* The (category, workout) pairs of by_category and of by_workout.
PairsIn(byCat) ==
  UNION {{<<byCat[g][1], w>> : w \in Range(byCat[g][2])} : g \in DOMAIN byCat}
PairsOut(byWorkout) ==
  UNION {{<<c, byWorkout[i][1]>> : c \in Range(byWorkout[i][2])} :
           i \in DOMAIN byWorkout}

\* C6: inverter round trip.  Re-grouping the inverter's output by category
\* gives the (category, workout) pairs of its input, each workout has one
\* entry, and each workout's category list is in strictly ascending order
\* (sorted, no duplicate).
C6_InvertRoundTrip ==
  Merging =>
    /\ PairsOut(by_workout) = PairsIn(by_category)
    /\ \A i, j \in DOMAIN by_workout :
         by_workout[i][1] = by_workout[j][1] => i = j
    /\ \A i \in DOMAIN by_workout :
         LET cats == by_workout[i][2]
         IN  \A a, b \in DOMAIN cats : a < b => StrLess(cats[a], cats[b])

\* A workout listed twice under one category and once under another, whose
\* categories came in descending order on the page.
C6_Witness ==
  /\ Merging
  /\ Len(by_category) = 2
  /\ by_category[1][2] = <<"A", "A">>
  /\ "A" \in Range(by_category[2][2])
  /\ StrLess(by_category[2][1], by_category[1][1])
  /\ Len(Get(by_workout, "A")) = 2

\* The blocks of a page that hold "TOTAL:" in any case.
TotalBlocks(blocks) == {i \in DOMAIN blocks : Contains(Upper(blocks[i]), TOTAL)}
\* ... and at least one digit character.
TotalDigitBlocks(blocks) ==
  {i \in TotalBlocks(blocks) : \E k \in DOMAIN blocks[i] : IsDigit(blocks[i][k])}
First(S) == CHOOSE i \in S : \A j \in S : i <= j

\* The page of a response that has one.
ObservedPage == observed[1] = "http" /\ observed[2] = 200 /\ data # <<>>

Effective(v) == IF v[1] = "obj" THEN v[2] ELSE v

\* C8: legacy cache normalization.  A cached workout gets the integer of its
\* entry as TotalDistance whether the file held the bare integer or the
\* object, and the cache file save_cache writes holds objects only.
C8_LegacyNormalization ==
  /\ Merging =>
       \A i \in DOMAIN data :
         LET name == data[i][1]
             rec == data[i][2]
         IN  (rec.url # None /\ name \in DOMAIN LoadedCache) =>
               rec.TotalDistance = Effective(LoadedCache[name])
  /\ pc = "saved" =>
       \A n \in DOMAIN disk.content : disk.content[n][1] = "obj"

\* C9: crash safety of the cache file.  The file changes only after the
\* merge has finished, and after an interruption it is the file the run
\* started with or a complete file, never a partial one.
C9_CrashSafe ==
  /\ pc \in {"loaded", "fetched", "merging", "merged"} => disk = start.disk
  /\ pc = "crashed" => (disk = start.disk \/ disk.st = "complete")

\* C10: SourceUnavailable is fatal.  When the archive request raised or gave
\* a status other than 200, the process has ended, the cache file and the two
\* output files are as they were when the run began, and no detail page was
\* requested.
C10_SourceUnavailable ==
  archive \in {"exception", "status"} =>
    /\ pc = "aborted"
    /\ disk = start.disk
    /\ outJson = start.outJson
    /\ outHtml = start.outHtml
    /\ runReqs = {}

\* The archive was unreachable in a run that followed a complete one.
C10_Witness ==
  /\ archive \in {"exception", "status"}
  /\ pc = "aborted"
  /\ disk.st = "complete"
  /\ disk.content # EmptyMap
  /\ outJson.st = "complete"
  /\ outHtml.st = "complete"

====
